---- MODULE Spec2Model ----
(***************************************************************************)
(* The scene-animation engine of the Homey authentication page: the       *)
(* CameraController (its useEffect and its per-frame useFrame callback)    *)
(* driven by the AuthPage state (mode, showWelcomeText) and by the auth    *)
(* context (isAuthenticated); DynamicLighting (its brightness curves,      *)
(* colour gradients and rotation); and the handlers of the page (house     *)
(* click, mode buttons, login and register submission).                    *)
(*                                                                         *)
(* Numbers.  Scene coordinates are fixed-point integers: one scene unit is *)
(* PerUnit = 1000 * 2^MaxTicks, so every authored coordinate (given in     *)
(* thousandths) is exact and a frame whose damping factor is a multiple of *)
(* 1/2 is computed without rounding for MaxTicks frames.  Time is counted  *)
(* in 1/240 s, so the damping factor delta * 1.2 of a frame of d time      *)
(* units is exactly d/200.  Math.sin and Math.cos are tabulated to two     *)
(* decimals at the multiples of GridStep, the only times at which a frame  *)
(* reads an orbit.                                                         *)
(***************************************************************************)
EXTENDS Integers, Sequences, FiniteSets, TLC

VARIABLES
    mode,             \* AuthPage state: "login" | "signup"
    showWelcomeText,  \* AuthPage state
    showForm,         \* AuthPage state
    isDoorOpen,       \* AuthPage state
    isAuthenticated,  \* from useAuth()
    targetPosition,   \* CameraController refs
    currentPosition,
    targetLookAt,
    currentLookAt,
    timeRef,
    effectPending,    \* the useEffect of the last commit has not run yet
    ticks,            \* frames rendered since mount
    events,           \* UI / auth events since mount
    shot,             \* branch of useFrame taken by the last frame
    lastDelta,        \* delta passed to the last frame
    timeOfDay,        \* DynamicLighting prop of the last render, in 1/TimeDen
    light,            \* what the last render of DynamicLighting gave its lights
    renders,          \* renders of DynamicLighting since mount
    curve,            \* interpolate: scale of the last call
    value,            \* interpolate: value of the last call, in 1/TimeDen
    result,           \* interpolate: what the last call returned
    isLoading,        \* AuthPage state
    authCall,         \* login / register call awaited: "none" | "login" | "register"
    registerName,     \* registerForm.name of the last register call
    avatarInitials    \* avatar_initials passed to the last register call

vars == <<mode, showWelcomeText, showForm, isDoorOpen, isAuthenticated,
          targetPosition, currentPosition, targetLookAt, currentLookAt,
          timeRef, effectPending, ticks, events, shot, lastDelta,
          timeOfDay, light, renders, curve, value, result,
          isLoading, authCall, registerName, avatarInitials>>

pageVars == <<mode, showWelcomeText, showForm, isDoorOpen, isAuthenticated>>
cameraVars == <<targetPosition, currentPosition, targetLookAt, currentLookAt, timeRef>>
frameVars == <<ticks, shot, lastDelta>>
lightVars == <<timeOfDay, light, renders>>
curveVars == <<curve, value, result>>
formVars == <<isLoading, authCall, registerName, avatarInitials>>

---------------------------------------------------------------------------
\* Bounds of the model.
MaxTicks == 4
MaxEvents == 4
MaxSettleTicks == 50

\* Fixed-point scale.
Quantum == 2 ^ MaxTicks
PerUnit == 1000 * Quantum

\* Time is counted in 1/240 s.  The orbits are tabulated every GridStep of
\* it (5/12 s), and every frame that reads an orbit lasts a multiple of it:
\* 5/12 s (factor 1/2), 5/6 s (factor 1), 2.5 s (a stalled frame, factor 3).
GridStep == 100
Deltas == {GridStep, 2 * GridStep, 6 * GridStep}
\* A frame of 1/60 s: the frames of the Authenticated shot, which reads no
\* orbit.
FrameDelta60 == 240 \div 60

Abs(n) == IF n < 0 THEN -n ELSE n

RECURSIVE GCD(_, _)
GCD(a, b) == IF b = 0 THEN a ELSE GCD(b, a % b)

\* A vector authored in thousandths of a scene unit.
Vec(x, y, z) == <<x * Quantum, y * Quantum, z * Quantum>>

---------------------------------------------------------------------------
\* Math.sin(k/16), Math.cos(k/16), Math.cos(k/24) in hundredths, k = 0..48.
SinTab16 ==
    <<0, 6, 12, 19, 25, 31, 37, 42, 48, 53, 59, 63, 68, 73, 77, 81, 84, 87, 90,
      93, 95, 97, 98, 99, 100, 100, 100, 99, 98, 97, 95, 93, 91, 88, 85, 82, 78,
      74, 69, 65, 60, 55, 49, 44, 38, 32, 26, 20, 14>>
CosTab16 ==
    <<100, 100, 99, 98, 97, 95, 93, 91, 88, 85, 81, 77, 73, 69, 64, 59, 54, 49,
      43, 37, 32, 26, 19, 13, 7, 1, -5, -12, -18, -24, -30, -36, -42, -47, -53,
      -58, -63, -68, -72, -76, -80, -84, -87, -90, -92, -95, -96, -98, -99>>
CosTab24 ==
    <<100, 100, 100, 99, 99, 98, 97, 96, 94, 93, 91, 90, 88, 86, 83, 81, 79, 76,
      73, 70, 67, 64, 61, 57, 54, 50, 47, 43, 39, 35, 32, 28, 24, 19, 15, 11, 7,
      3, -1, -5, -10, -14, -18, -22, -26, -30, -34, -38, -42>>

\* The largest time the tables cover.
MaxTime == GridStep * (Len(SinTab16) - 1)

\* The row of the tables for time t.  Only the times of the grid have one:
\* between two of them the orbit is not tabulated and has no value here.
GridIndex(t) == (CHOOSE k \in 0..(Len(SinTab16) - 1) : GridStep * k = t) + 1

\* angle = timeRef.current * 0.15: t/240 s * 0.15 = (t/GridStep)/16 rad.
SinAngle(t) == SinTab16[GridIndex(t)]
CosAngle(t) == CosTab16[GridIndex(t)]
\* timeRef.current * 0.1 = (t/GridStep)/24 rad.
CosFloat(t) == CosTab24[GridIndex(t)]

---------------------------------------------------------------------------
\* The four shots.
WelcomePosition == Vec(0, 3000, 12000)
WelcomeLookAt == Vec(0, 1000, 0)
InteriorPosition == Vec(0, 1500, 1000)
InteriorLookAt == Vec(0, 1000, -1000)

LoginPosition(t) ==
    Vec(6000 + SinAngle(t) * 20, 3500 + CosFloat(t) * 3, 8000 + CosAngle(t) * 15)
LoginLookAt == Vec(-500, 1200, 0)

\* Variant of SignupPosition that orbits in the same direction as the login shot.
SignupPosition_SameDirection(t) ==
    Vec(-6000 + SinAngle(t) * 20, 3500 + CosFloat(t) * 3, 8000 + CosAngle(t) * 15)

SignupPosition(t) ==
    Vec(-6000 - SinAngle(t) * 20, 3500 + CosFloat(t) * 3, 8000 + CosAngle(t) * 15)
SignupLookAt == Vec(500, 1200, 0)

\* Variants of CameraShot with the nesting of its conditions changed.
CameraShot_WelcomeFirst(auth, welcome, m) ==
    IF welcome
    THEN "Welcome"
    ELSE IF ~auth
         THEN IF m = "login" THEN "LoginFocus" ELSE "SignupFocus"
         ELSE "Authenticated"

CameraShot_AuthInLoginOnly(auth, welcome, m) ==
    IF m = "login"
    THEN IF auth THEN "Authenticated" ELSE IF welcome THEN "Welcome" ELSE "LoginFocus"
    ELSE IF welcome THEN "Welcome" ELSE "SignupFocus"

CameraShot_ModeBeforeWelcome(auth, welcome, m) ==
    IF ~auth
    THEN IF m = "login"
         THEN "LoginFocus"
         ELSE IF welcome THEN "Welcome" ELSE "SignupFocus"
    ELSE "Authenticated"

\* The branch of useFrame that the inputs select.
CameraShot(auth, welcome, m) ==
    IF ~auth
    THEN IF welcome
         THEN "Welcome"
         ELSE IF m = "login" THEN "LoginFocus" ELSE "SignupFocus"
    ELSE "Authenticated"

\* Variant of FrameTargetPosition whose welcome shot floats with the time.
FrameTargetPosition_WelcomeFloat(s, t, old) ==
    CASE s = "Welcome" -> Vec(0, 3000 + CosFloat(t) * 3, 12000)
      [] s = "LoginFocus" -> LoginPosition(t)
      [] s = "SignupFocus" -> SignupPosition(t)
      [] OTHER -> old

\* Variant of FrameTargetLookAt whose Authenticated branch looks back at the
\* house from outside.
FrameTargetLookAt_AuthLooksOut(s, old) ==
    CASE s = "Welcome" -> WelcomeLookAt
      [] s = "LoginFocus" -> LoginLookAt
      [] s = "SignupFocus" -> SignupLookAt
      [] OTHER -> WelcomeLookAt

\* What a frame at time t leaves in targetPosition / targetLookAt, given what
\* they held before (the Authenticated branch writes nothing).
FrameTargetPosition(s, t, old) ==
    CASE s = "Welcome" -> WelcomePosition
      [] s = "LoginFocus" -> LoginPosition(t)
      [] s = "SignupFocus" -> SignupPosition(t)
      [] OTHER -> old

FrameTargetLookAt(s, old) ==
    CASE s = "Welcome" -> WelcomeLookAt
      [] s = "LoginFocus" -> LoginLookAt
      [] s = "SignupFocus" -> SignupLookAt
      [] OTHER -> old

\* delta * 1.2 for a frame of d/240 s, as the reduced fraction num/den.
DampingNum(d) == d \div GCD(Abs(d), 200)
DampingDen(d) == 200 \div GCD(Abs(d), 200)

\* Variant of LerpScalar with the per-frame factor 0.05 of the earlier controller.
LerpScalar_FrameScaled(a, b, d) == a + (b - a) \div 20

\* Variant of LerpScalar that copies the target.
LerpScalar_Copy(a, b, d) == b

\* THREE.Vector3.lerp: this.c += (v.c - this.c) * alpha, per component.
LerpScalar(a, b, d) == a + ((b - a) * DampingNum(d)) \div DampingDen(d)
Lerp(p, q, d) ==
    <<LerpScalar(p[1], q[1], d), LerpScalar(p[2], q[2], d), LerpScalar(p[3], q[3], d)>>

\* Distance between two points, as the sum of the absolute coordinate offsets.
\* A lerp keeps the camera on the line through its position and the target,
\* where this distance and the Euclidean one order points alike.
Dist(p, q) == Abs(p[1] - q[1]) + Abs(p[2] - q[2]) + Abs(p[3] - q[3])

---------------------------------------------------------------------------
(***************************************************************************)
(* DynamicLighting.  The brightness curves are computed in IEEE 754        *)
(* binary64, the numbers of JavaScript, with every operation rounded as    *)
(* the processor rounds it.  A natural number of any size is the sequence  *)
(* of its digits in base LimbBase, least significant first, without        *)
(* leading zero digits (0 is the empty sequence).  A double is NaN, zero,  *)
(* or (-1)^neg * mant * 2^exp with mant a natural number of exactly        *)
(* MantBits bits.  Signed zeros, infinities and subnormal numbers are not  *)
(* represented: no operation of interpolate yields one on the values       *)
(* given to it here.                                                       *)
(*                                                                         *)
(* timeOfDay and the value passed to interpolate are numerators over       *)
(* TimeDen, a common multiple of the keyframe counts of the authored       *)
(* curves (22 and 8) and of the hundredths in which the gradient stops are *)
(* authored; the number passed is the double nearest to that fraction.     *)
(* Brightness keyframes are in hundredths.  Colours are <<r, g, b>> with   *)
(* 8-bit channels.  The angle of the sun and the moon is kept as an exact  *)
(* fraction, in units of pi.                                               *)
(***************************************************************************)
MaxOutside == 1
MaxRenders == 3

TimeDen == 22 * 100
PerCent == TimeDen \div 100

\* <DynamicLighting timeOfDay={0.6} />
MountTimeOfDay == 60 * PerCent

Max(a, b) == IF a >= b THEN a ELSE b
Min(a, b) == IF a <= b THEN a ELSE b

\* Exact fractions, for the angle: NaN or the reduced fraction num/den.
NaN == [nan |-> TRUE, num |-> 0, den |-> 1]
Num(n, d) ==
    LET g == GCD(Abs(n), Abs(d))
        s == IF d < 0 THEN -1 ELSE 1
    IN  [nan |-> FALSE, num |-> (s * n) \div g, den |-> (s * d) \div g]
Zero == Num(0, 1)
jsSub(a, b) ==
    IF a.nan \/ b.nan THEN NaN ELSE Num(a.num * b.den - b.num * a.den, a.den * b.den)
jsMul(a, b) ==
    IF a.nan \/ b.nan THEN NaN ELSE Num(a.num * b.num, a.den * b.den)
jsDiv(a, b) ==
    IF a.nan \/ b.nan \/ b.num = 0 THEN NaN ELSE Num(a.num * b.den, a.den * b.num)

\* Math.floor and Math.ceil of the fraction n/d, d > 0.
Floor(n, d) == n \div d
Ceil(n, d) == -((-n) \div d)

\* Natural numbers of any size.
LimbBits == 15
LimbBase == 2 ^ LimbBits
MantBits == 53
\* Digits of a quotient worked out before it is rounded.
DivLimbs == (MantBits + 2) \div LimbBits + 1

RECURSIVE BigNorm(_)
BigNorm(a) ==
    IF a # <<>> /\ a[Len(a)] = 0 THEN BigNorm(SubSeq(a, 1, Len(a) - 1)) ELSE a

RECURSIVE BigFromInt(_)
BigFromInt(n) == IF n = 0 THEN <<>> ELSE <<n % LimbBase>> \o BigFromInt(n \div LimbBase)

RECURSIVE BigToInt(_)
BigToInt(a) == IF a = <<>> THEN 0 ELSE Head(a) + LimbBase * BigToInt(Tail(a))

Limb(a, i) == IF i >= 1 /\ i <= Len(a) THEN a[i] ELSE 0

RECURSIVE BigAddCarry(_, _, _)
BigAddCarry(a, b, c) ==
    IF a = <<>> /\ b = <<>>
    THEN IF c = 0 THEN <<>> ELSE <<c>>
    ELSE LET x == Limb(a, 1) + Limb(b, 1) + c
         IN  <<x % LimbBase>>
                 \o BigAddCarry(IF a = <<>> THEN a ELSE Tail(a),
                                IF b = <<>> THEN b ELSE Tail(b), x \div LimbBase)
BigAdd(a, b) == BigAddCarry(a, b, 0)

\* a - b for a >= b.
RECURSIVE BigSubBorrow(_, _, _)
BigSubBorrow(a, b, c) ==
    IF a = <<>>
    THEN <<>>
    ELSE LET x == Head(a) - Limb(b, 1) - c
         IN  <<IF x < 0 THEN x + LimbBase ELSE x>>
                 \o BigSubBorrow(Tail(a), IF b = <<>> THEN b ELSE Tail(b),
                                 IF x < 0 THEN 1 ELSE 0)
BigSub(a, b) == BigNorm(BigSubBorrow(a, b, 0))

\* -1, 0 or 1 as a is below, equal to or above b.
RECURSIVE BigCmpFrom(_, _, _)
BigCmpFrom(a, b, i) ==
    IF i = 0 THEN 0
    ELSE IF a[i] < b[i] THEN -1
    ELSE IF a[i] > b[i] THEN 1
    ELSE BigCmpFrom(a, b, i - 1)
BigCmp(a, b) ==
    IF Len(a) < Len(b) THEN -1
    ELSE IF Len(a) > Len(b) THEN 1
    ELSE BigCmpFrom(a, b, Len(a))

RECURSIVE BigMulLimb(_, _, _)
BigMulLimb(a, k, c) ==
    IF a = <<>>
    THEN IF c = 0 THEN <<>> ELSE <<c>>
    ELSE LET x == Head(a) * k + c
         IN  <<x % LimbBase>> \o BigMulLimb(Tail(a), k, x \div LimbBase)

RECURSIVE BigMul(_, _)
BigMul(a, b) ==
    IF a = <<>> \/ b = <<>>
    THEN <<>>
    ELSE LET rest == BigMul(a, Tail(b))
         IN  BigAdd(BigMulLimb(a, Head(b), 0), IF rest = <<>> THEN rest ELSE <<0>> \o rest)

\* a * 2^n and the integer part of a / 2^n.
BigShl(a, n) ==
    IF a = <<>> THEN a
    ELSE [i \in 1..(n \div LimbBits) |-> 0] \o BigMulLimb(a, 2 ^ (n % LimbBits), 0)
BigShr(a, n) ==
    LET b == SubSeq(a, (n \div LimbBits) + 1, Len(a))
        r == n % LimbBits
    IN  BigNorm([i \in 1..Len(b) |->
                    (b[i] \div 2 ^ r) + (Limb(b, i + 1) % 2 ^ r) * 2 ^ (LimbBits - r)])

RECURSIVE BitsOf(_)
BitsOf(x) == IF x = 0 THEN 0 ELSE 1 + BitsOf(x \div 2)
BigBits(a) == IF a = <<>> THEN 0 ELSE LimbBits * (Len(a) - 1) + BitsOf(a[Len(a)])
BigOdd(a) == a # <<>> /\ a[1] % 2 = 1
\* The bits of a below bit n are all zero.
BigLowZero(a, n) == BigShl(BigShr(a, n), n) = a

RECURSIVE BigDivBits(_, _, _)
\* The next k bits of the quotient of rem by d, for rem < d, as a number
\* below 2^k, and what is left of rem: one bit per doubling of rem.
BigDivBits(rem, d, k) ==
    IF k = 0
    THEN [quot |-> 0, rem |-> rem]
    ELSE LET r2 == BigShl(rem, 1)
             one == BigCmp(r2, d) >= 0
             rest == BigDivBits(IF one THEN BigSub(r2, d) ELSE r2, d, k - 1)
         IN  [quot |-> (IF one THEN 2 ^ (k - 1) ELSE 0) + rest.quot, rem |-> rest.rem]

RECURSIVE BigDivLimbs(_, _, _)
\* The n digits of a quotient whose first digit and remainder are top.
BigDivLimb(top, d, n) ==
    [BigDivLimbs(top.rem, d, n - 1) EXCEPT !.quot = @ \o <<top.quot>>]
\* The integer part of rem * LimbBase^n / d, for rem < d, and whether the
\* division leaves no remainder: long division, one digit at a time.
BigDivLimbs(rem, d, n) ==
    IF n = 0
    THEN [quot |-> <<>>, exact |-> rem = <<>>]
    ELSE BigDivLimb(BigDivBits(rem, d, LimbBits), d, n)

DblNaN == [nan |-> TRUE, neg |-> FALSE, mant |-> <<>>, exp |-> 0]
DblZero == [nan |-> FALSE, neg |-> FALSE, mant |-> <<>>, exp |-> 0]
IsZero(a) == ~a.nan /\ a.mant = <<>>

\* The double (-1)^neg * q * 2^e for q of MantBits bits, or of one bit more
\* and even (a significand that rounding has carried into the next power of
\* two).
Renorm(neg, q, e) ==
    IF BigBits(q) > MantBits
    THEN [nan |-> FALSE, neg |-> neg, mant |-> BigShr(q, 1), exp |-> e + 1]
    ELSE [nan |-> FALSE, neg |-> neg, mant |-> q, exp |-> e]

\* Round to nearest, ties to even: q is the significand cut to MantBits bits,
\* c tells whether what was cut off is below (-1), at (0) or above (1) half a
\* unit of q, and sticky whether the exact value lies above what was cut.
RoundUp(neg, q, c, sticky, e) ==
    Renorm(neg,
           IF c > 0 \/ (c = 0 /\ (sticky \/ BigOdd(q))) THEN BigAdd(q, <<1>>) ELSE q, e)

\* The rounding of m * 2^e, m # 0, which has s bits more than a significand.
RoundAt(neg, m, e, sticky, s) ==
    IF s <= 0
    THEN [nan |-> FALSE, neg |-> neg, mant |-> BigShl(m, -s), exp |-> e + s]
    ELSE RoundUp(neg, BigShr(m, s),
                 BigCmp(BigSub(m, BigShl(BigShr(m, s), s)), BigShl(<<1>>, s - 1)),
                 sticky, e + s)

\* The double nearest to (-1)^neg * m * 2^e, ties to even; sticky says that
\* the exact value is above m * 2^e by less than 2^e.
RoundPack(neg, m, e, sticky) ==
    IF m = <<>> THEN DblZero ELSE RoundAt(neg, m, e, sticky, BigBits(m) - MantBits)

dblFromInt(n) == RoundPack(n < 0, BigFromInt(IF n < 0 THEN -n ELSE n), 0, FALSE)
dblNeg(a) == IF a.nan \/ IsZero(a) THEN a ELSE [a EXCEPT !.neg = ~a.neg]

\* The sum of (-1)^an * ma * 2^e and (-1)^bn * mb * 2^e.
AddAligned(an, ma, bn, mb, e) ==
    RoundPack(IF an = bn \/ BigCmp(ma, mb) >= 0 THEN an ELSE bn,
              IF an = bn THEN BigAdd(ma, mb)
              ELSE IF BigCmp(ma, mb) >= 0 THEN BigSub(ma, mb) ELSE BigSub(mb, ma),
              e, FALSE)
AddAt(a, b, e) ==
    AddAligned(a.neg, BigShl(a.mant, a.exp - e), b.neg, BigShl(b.mant, b.exp - e), e)
dblAdd(a, b) ==
    IF a.nan \/ b.nan THEN DblNaN
    ELSE IF IsZero(a) THEN b
    ELSE IF IsZero(b) THEN a
    ELSE AddAt(a, b, IF a.exp <= b.exp THEN a.exp ELSE b.exp)
dblSub(a, b) == dblAdd(a, dblNeg(b))
dblMul(a, b) ==
    IF a.nan \/ b.nan THEN DblNaN
    ELSE IF IsZero(a) \/ IsZero(b) THEN DblZero
    ELSE RoundPack(a.neg # b.neg, BigMul(a.mant, b.mant), a.exp + b.exp, FALSE)

\* The quotient of two significands: its first bit, then DivLimbs digits d.
DivRound(neg, first, d, e) ==
    RoundPack(neg, BigNorm(d.quot \o <<IF first THEN 1 ELSE 0>>), e, ~d.exact)
DivFrom(a, b, first) ==
    DivRound(a.neg # b.neg, first,
             BigDivLimbs(IF first THEN BigSub(a.mant, b.mant) ELSE a.mant, b.mant, DivLimbs),
             a.exp - b.exp - DivLimbs * LimbBits)
dblDiv(a, b) ==
    IF a.nan \/ b.nan \/ IsZero(b) THEN DblNaN
    ELSE IF IsZero(a) THEN DblZero
    ELSE DivFrom(a, b, BigCmp(a.mant, b.mant) >= 0)
dblStrictEq(a, b) == ~a.nan /\ ~b.nan /\ a = b
dblLe(a, b) == ~a.nan /\ ~b.nan /\ ~dblSub(b, a).neg
dblLt(a, b) == dblLe(a, b) /\ a # b
dblAbs(a) == IF a.nan THEN a ELSE [a EXCEPT !.neg = FALSE]
\* The double nearest to n/d: the quotient of two integers, and what a
\* decimal literal of the source denotes.
Dbl(n, d) == dblDiv(dblFromInt(n), dblFromInt(d))
DblOne == dblFromInt(1)

\* Math.floor and Math.ceil, as integers.
IntPart(a) == IF a.exp >= 0 THEN BigToInt(BigShl(a.mant, a.exp)) ELSE BigToInt(BigShr(a.mant, -a.exp))
HasFraction(a) == a.exp < 0 /\ ~BigLowZero(a.mant, -a.exp)
dblFloor(a) ==
    IF a.neg THEN -IntPart(a) - (IF HasFraction(a) THEN 1 ELSE 0) ELSE IntPart(a)
dblCeil(a) ==
    IF a.neg THEN -IntPart(a) ELSE IntPart(a) + (IF HasFraction(a) THEN 1 ELSE 0)

\* A number literal of the source with two decimals: the double nearest to
\* h/100.
Hundredths(h) == Dbl(h, 100)

\* scale[i] of a JavaScript array (0-based): undefined outside the array, and
\* undefined is NaN in arithmetic.
scaleAt(scale, i) ==
    IF i >= 0 /\ i < Len(scale) THEN Hundredths(scale[i + 1]) ELSE DblNaN

\* rescale(val, [srcMin, srcMax], [dstMin, dstMax]) of interpolate.
rescale(val, srcMin, srcMax, dstMin, dstMax) ==
    IF dblStrictEq(srcMin, srcMax)
    THEN dstMin
    ELSE LET t == dblDiv(dblSub(val, srcMin), dblSub(srcMax, srcMin))
         IN  dblAdd(dblMul(t, dblSub(dstMax, dstMin)), dstMin)

\* lerp(start, end, t) of interpolate.
lerp(start, end, t) == dblAdd(dblMul(dblSub(DblOne, t), start), dblMul(t, end))

\* The body of interpolate(scale, value) for count segments: val is value and
\* scaled is count * value.
interpolateScaled(scale, count, val, scaled) ==
    LET low == Max(dblFloor(scaled), 0)
        high == Min(dblCeil(scaled), count)
    IN  lerp(scaleAt(scale, low), scaleAt(scale, high),
             rescale(val, Dbl(low, count), Dbl(high, count), DblZero, DblOne))

\* Variant of interpolate that takes the number of keyframes for the number
\* of segments.
interpolate_CountIsLength(scale, v) ==
    interpolateScaled(scale, Len(scale), Dbl(v, TimeDen),
                      dblMul(dblFromInt(Len(scale)), Dbl(v, TimeDen)))

\* Variant of interpolate that holds the lower keyframe over the segment.
interpolate_Step(scale, v) ==
    scaleAt(scale, Max(dblFloor(dblMul(dblFromInt(Len(scale) - 1), Dbl(v, TimeDen))), 0))

\* interpolate(scale, value), value the double nearest to v / TimeDen.
interpolate(scale, v) ==
    interpolateScaled(scale, Len(scale) - 1, Dbl(v, TimeDen),
                      dblMul(dblFromInt(Len(scale) - 1), Dbl(v, TimeDen)))

\* The authored brightness curves, in hundredths.
sunCurve ==
    <<0, 0, 0, 0, 30, 30, 30, 30, 50, 50, 50, 50, 50, 50, 50, 30, 30, 30, 30, 30,
      0, 0, 0>>

\* Variant of moonCurve with the moon at its peak all day.
moonCurve_FullMoon == [i \in 1..23 |-> 40]

moonCurve ==
    <<40, 40, 40, 40, 40, 0, 0, 0, 0, 0, 0, 0, 0, 0, 0, 0, 0, 0, 0, 10, 20, 40,
      40>>

\* Variant of skyCurve that ends the day at the daytime brightness.
skyCurve_BrightMidnight == <<5, 5, 20, 20, 20, 20, 20, 20, 20>>

skyCurve == <<5, 5, 20, 20, 20, 20, 20, 20, 5>>
AuthoredCurves == {sunCurve, moonCurve, skyCurve}

\* The authored gradients: colour stops and their breakpoints, in hundredths.
Blue == <<0, 140, 255>>
Pink == <<255, 126, 204>>
Peach == <<255, 197, 184>>
Cream == <<255, 235, 184>>
White == <<255, 255, 255>>
MoonBlue == <<97, 160, 255>>
sunStops == <<Blue, Pink, Peach, Cream, White, Peach, Pink, Blue>>
sunDomain == <<0, 15, 21, 27, 70, 75, 81, 100>>
moonStops == <<MoonBlue, White, White, MoonBlue>>
moonDomain == <<20, 33, 67, 80>>

\* Variant of mixChannel that takes the nearer of the two stops.
mixChannel_Nearest(c0, c1, tn, td) == IF 2 * tn < td THEN c0 ELSE c1

\* One channel of chroma.interpolate(col1, col2, f, 'rgb'), f = tn/td, as the
\* hex string prints it: c0 + f * (c1 - c0), rounded by Math.round.
mixChannel(c0, c1, tn, td) == Floor(2 * (c0 * td + tn * (c1 - c0)) + td, 2 * td)
mixRgb(col0, col1, tn, td) ==
    <<mixChannel(col0[1], col1[1], tn, td), mixChannel(col0[2], col1[2], tn, td),
      mixChannel(col0[3], col1[3], tn, td)>>

\* Position of breakpoint i of a domain, in 1/TimeDen.
StopAt(domain, i) == domain[i] * PerCent

\* Variant of StopPosition that spreads the stops evenly over the domain.
StopPosition_Even(domain, i) ==
    StopAt(domain, 1)
        + ((StopAt(domain, Len(domain)) - StopAt(domain, 1)) * (i - 1))
              \div (Len(domain) - 1)

\* chroma.scale(colors).domain(d) with d.length = colors.length: stop i sits
\* at d[i].
StopPosition(domain, i) == StopAt(domain, i)

\* The loop of the scale over its stops, from stop i on: the stop itself at
\* or below its position and at or above the last one, the mix of the two
\* neighbours strictly between two positions.
RECURSIVE scaleFrom(_, _, _, _)
scaleFrom(stops, domain, v, i) ==
    IF v <= StopPosition(domain, i) THEN stops[i]
    ELSE IF i = Len(stops) THEN stops[i]
    ELSE IF v < StopPosition(domain, i + 1)
         THEN mixRgb(stops[i], stops[i + 1], v - StopPosition(domain, i),
                     StopPosition(domain, i + 1) - StopPosition(domain, i))
    ELSE scaleFrom(stops, domain, v, i + 1)

\* scale(value): the value is limited to the domain, then looked up.
chromaScale(stops, domain, v) ==
    scaleFrom(stops, domain,
              Min(Max(v, StopAt(domain, 1)), StopAt(domain, Len(domain))), 1)
sunColors(v) == chromaScale(sunStops, sunDomain, v)
moonColors(v) == chromaScale(moonStops, moonDomain, v)

\* Inputs.  Curve inputs are the multiples of 1/88 in [0, 1], which hold
\* every keyframe position of the authored curves and three points inside
\* each segment of the longer ones, the first multiple of 1/88 outside [0, 1]
\* on either side, and the whole numbers up to MaxOutside below 0 and above 1.
\* Times of day are the multiples of 1/44 in [0, 1], the breakpoints of the
\* gradients, every fifth hundredth and each hundredth of the first five, in
\* the night before the moon sets.
Step88 == TimeDen \div 88
CurveInputs ==
    {Step88 * k : k \in -1..89}
        \cup {-k * TimeDen : k \in 1..MaxOutside}
        \cup {(1 + k) * TimeDen : k \in 1..MaxOutside}
DayHundredths ==
    {5 * k : k \in 0..20}
        \cup 0..5
        \cup {sunDomain[i] : i \in 1..Len(sunDomain)}
        \cup {moonDomain[i] : i \in 1..Len(moonDomain)}
DayInputs ==
    {2 * Step88 * k : k \in 0..44} \cup {PerCent * h : h \in DayHundredths}

\* Curves given to interpolate: the authored ones, and short ones of one, two
\* and three keyframes.
Curves == AuthoredCurves \cup {<<30>>, <<0, 50>>, <<40, 0, 20>>}

\* interpolate(scale, value) for the curves and the values above, and for
\* the authored curves at the times of day: each is worked out once, and a
\* call of interpolate reads it here.
interpolateAt == [c \in Curves, v \in CurveInputs |-> interpolate(c, v)]
brightnessAt == [c \in AuthoredCurves, t \in DayInputs |-> interpolate(c, t)]

\* THREE.MathUtils.degToRad, the radians in units of pi: degrees / 180.
degToRad(degrees) == jsDiv(degrees, Num(180, 1))

\* Variant of rotation without the offset of half a turn.
rotation_FromZero(t) == degToRad(jsMul(Num(t, TimeDen), Num(360, 1)))

\* rotation = THREE.MathUtils.degToRad(timeOfDay * 360 - 180).
rotation(t) == degToRad(jsSub(jsMul(Num(t, TimeDen), Num(360, 1)), Num(180, 1)))

\* What a render of DynamicLighting({ timeOfDay }) hands to its lights:
\* sunBrightness, moonBrightness, skyBrightness, the rotation, the Euler
\* angles [x, y, z] of the sun group and of the moon group, and the two
\* colours.
DynamicLighting(t) ==
    [sun |-> brightnessAt[sunCurve, t],
     moon |-> brightnessAt[moonCurve, t],
     sky |-> brightnessAt[skyCurve, t],
     rotation |-> rotation(t),
     sunRotation |-> <<Zero, Zero, rotation(t)>>,
     moonRotation |-> <<Zero, Zero, rotation(t)>>,
     sunColor |-> sunColors(t),
     moonColor |-> moonColors(t)]

---------------------------------------------------------------------------
Init ==
    /\ mode = "login"
    /\ showWelcomeText = TRUE
    /\ showForm = FALSE
    /\ isDoorOpen = FALSE
    /\ isAuthenticated = FALSE
    /\ targetPosition = WelcomePosition
    /\ currentPosition = WelcomePosition
    /\ targetLookAt = WelcomeLookAt
    /\ currentLookAt = WelcomeLookAt
    /\ timeRef = 0
    /\ effectPending = TRUE
    /\ ticks = 0
    /\ events = 0
    /\ shot = "none"
    /\ lastDelta = 0
    /\ timeOfDay = MountTimeOfDay
    /\ light = DynamicLighting(MountTimeOfDay)
    /\ renders = 1
    /\ curve = skyCurve
    /\ value = MountTimeOfDay
    /\ result = brightnessAt[skyCurve, MountTimeOfDay]
    /\ isLoading = FALSE
    /\ authCall = "none"
    /\ registerName = <<>>
    /\ avatarInitials = <<>>

\* The useEffect callback, run after the commit that changed mode or
\* isAuthenticated (and after mount).
RunEffect ==
    /\ effectPending
    /\ effectPending' = FALSE
    /\ targetPosition' = IF isAuthenticated THEN InteriorPosition ELSE targetPosition
    /\ targetLookAt' = IF isAuthenticated THEN InteriorLookAt ELSE targetLookAt
    /\ UNCHANGED <<pageVars, currentPosition, currentLookAt, timeRef, frameVars, events,
                   lightVars, curveVars, formVars>>

\* Variant of UseFrame that restarts the time when the frame takes another
\* branch than the frame before it.
UseFrame_TimeSinceEntered(d) ==
    /\ timeRef + d <= MaxTime
    /\ shot' = CameraShot(isAuthenticated, showWelcomeText, mode)
    /\ timeRef' = IF shot' = shot THEN timeRef + d ELSE d
    /\ targetPosition' = FrameTargetPosition(shot', timeRef', targetPosition)
    /\ targetLookAt' = FrameTargetLookAt(shot', targetLookAt)
    /\ currentPosition' = Lerp(currentPosition, targetPosition', d)
    /\ currentLookAt' = Lerp(currentLookAt, targetLookAt', d)
    /\ ticks' = ticks + 1
    /\ lastDelta' = d
    /\ UNCHANGED <<pageVars, effectPending, events, lightVars, curveVars, formVars>>

\* The useFrame callback with delta = d/240 s.
UseFrame(d) ==
    /\ timeRef + d <= MaxTime
    /\ timeRef' = timeRef + d
    /\ shot' = CameraShot(isAuthenticated, showWelcomeText, mode)
    /\ targetPosition' = FrameTargetPosition(shot', timeRef', targetPosition)
    /\ targetLookAt' = FrameTargetLookAt(shot', targetLookAt)
    /\ currentPosition' = Lerp(currentPosition, targetPosition', d)
    /\ currentLookAt' = Lerp(currentLookAt, targetLookAt', d)
    /\ ticks' = ticks + 1
    /\ lastDelta' = d
    /\ UNCHANGED <<pageVars, effectPending, events, lightVars, curveVars, formVars>>

Tick ==
    \E d \in Deltas :
        /\ ticks < MaxTicks
        /\ UseFrame(d)

handleHouseClick ==
    /\ events < MaxEvents
    /\ events' = events + 1
    /\ showWelcomeText' = FALSE
    /\ isDoorOpen' = IF mode = "login" THEN TRUE ELSE isDoorOpen
    /\ showForm' = TRUE
    /\ UNCHANGED <<mode, isAuthenticated, cameraVars, effectPending, frameVars,
                   lightVars, curveVars, formVars>>

\* onClick of the mode buttons; the effect is scheduled when mode changed.
SetMode(m) ==
    /\ events < MaxEvents
    /\ events' = events + 1
    /\ mode' = m
    /\ showForm' = TRUE
    /\ effectPending' = (effectPending \/ mode # m)
    /\ UNCHANGED <<showWelcomeText, isDoorOpen, isAuthenticated, cameraVars, frameVars,
                   lightVars, curveVars, formVars>>

EnterHomeClick == SetMode("login")
JoinHomeClick == SetMode("signup")

\* useAuth() reports that the user is authenticated.  The auth context
\* (lib/contexts/AuthContext) follows the specification: isAuthenticated
\* starts false, becomes true, and stays true for the rest of the session.
AuthChange ==
    /\ events < MaxEvents
    /\ ~isAuthenticated
    /\ events' = events + 1
    /\ isAuthenticated' = TRUE
    /\ effectPending' = TRUE
    /\ UNCHANGED <<mode, showWelcomeText, showForm, isDoorOpen, cameraVars, frameVars,
                   lightVars, curveVars, formVars>>

Next ==
    \/ RunEffect
    \/ Tick
    \/ handleHouseClick
    \/ EnterHomeClick
    \/ JoinHomeClick
    \/ AuthChange

Spec == Init /\ [][Next]_vars

\* Frames of 1/60 s rendered once the interior target is installed.
SettleTick ==
    /\ ticks < MaxSettleTicks
    /\ isAuthenticated
    /\ ~effectPending
    /\ UseFrame(FrameDelta60)

SettleNext ==
    \/ RunEffect
    \/ SettleTick
    \/ handleHouseClick
    \/ EnterHomeClick
    \/ JoinHomeClick
    \/ AuthChange

SettleSpec == Init /\ [][SettleNext]_vars

---------------------------------------------------------------------------
\* A call interpolate(scale, value).
Evaluate ==
    \E c \in Curves, v \in CurveInputs :
        /\ curve' = c
        /\ value' = v
        /\ result' = interpolateAt[c, v]
        /\ UNCHANGED <<pageVars, cameraVars, effectPending, frameVars, events, lightVars,
                       formVars>>

CurveNext == Evaluate
CurveSpec == Init /\ [][CurveNext]_vars

\* A render of DynamicLighting with the prop timeOfDay = t / TimeDen.  Its
\* last call of interpolate is the one for skyBrightness.
RenderLighting(t) ==
    /\ renders < MaxRenders
    /\ timeOfDay' = t
    /\ light' = DynamicLighting(t)
    /\ renders' = renders + 1
    /\ curve' = skyCurve
    /\ value' = t
    /\ result' = brightnessAt[skyCurve, t]
    /\ UNCHANGED <<pageVars, cameraVars, effectPending, frameVars, events, formVars>>

Render == \E t \in DayInputs : RenderLighting(t)

LightNext == Render \/ handleHouseClick \/ EnterHomeClick \/ JoinHomeClick \/ AuthChange
LightSpec == Init /\ [][LightNext]_vars

---------------------------------------------------------------------------
(***************************************************************************)
(* The forms of the page.  A string is the sequence of its characters.     *)
(* login and register are the calls of the auth context: a call is awaited *)
(* until it settles, by resolving or by rejecting.                         *)
(***************************************************************************)
MaxNameLen == 4

Alphabet == {"a", " "}
RECURSIVE StringsOfLength(_)
StringsOfLength(n) ==
    IF n = 0
    THEN {<<>>}
    ELSE {Append(str, ch) : str \in StringsOfLength(n - 1), ch \in Alphabet}
Names == UNION {StringsOfLength(n) : n \in 0..MaxNameLen}

\* String.prototype.trim, for strings whose only white space is the space.
RECURSIVE trimStart(_)
trimStart(str) ==
    IF str # <<>> /\ Head(str) = " " THEN trimStart(Tail(str)) ELSE str
RECURSIVE trimEnd(_)
trimEnd(str) ==
    IF str # <<>> /\ str[Len(str)] = " "
    THEN trimEnd(SubSeq(str, 1, Len(str) - 1))
    ELSE str
trim(str) == trimEnd(trimStart(str))

\* String.prototype.split(' '): the pieces between the spaces, the empty
\* ones included; the empty string gives one empty piece.
RECURSIVE split(_)
split(str) ==
    IF \A i \in 1..Len(str) : str[i] # " "
    THEN <<str>>
    ELSE LET i == CHOOSE k \in 1..Len(str) :
                      str[k] = " " /\ \A j \in 1..(k - 1) : str[j] # " "
         IN  <<SubSeq(str, 1, i - 1)>> \o split(SubSeq(str, i + 1, Len(str)))

\* str[0] inside a template literal: the first character, or the text
\* "undefined" when the string is empty.
Undefined == <<"u", "n", "d", "e", "f", "i", "n", "e", "d">>
firstChar(str) == IF str = <<>> THEN Undefined ELSE <<str[1]>>

\* String.prototype.substring(0, 2).
substring2(str) == SubSeq(str, 1, Min(2, Len(str)))

\* String.prototype.toUpperCase, on the letters that occur.
upperChar(ch) ==
    CASE ch = "a" -> "A"
      [] ch = "u" -> "U"
      [] ch = "n" -> "N"
      [] ch = "d" -> "D"
      [] ch = "e" -> "E"
      [] ch = "f" -> "F"
      [] ch = "i" -> "I"
      [] OTHER -> ch
toUpperCase(str) == [i \in 1..Len(str) |-> upperChar(str[i])]

\* The initials computed by handleRegister.
initials(name) ==
    LET words == split(trim(name))
    IN  IF Len(words) >= 2
        THEN toUpperCase(firstChar(words[1]) \o firstChar(words[2]))
        ELSE toUpperCase(substring2(words[1]))

\* The login form is submitted (the form is shown in login mode and its
\* button is not disabled); complete says that no field is empty.
handleLogin ==
    \E complete \in BOOLEAN :
        /\ showForm /\ mode = "login" /\ ~isLoading
        /\ events < MaxEvents
        /\ events' = events + 1
        /\ IF complete
           THEN /\ isLoading' = TRUE
                /\ isDoorOpen' = TRUE
                /\ authCall' = "login"
           ELSE UNCHANGED <<isLoading, isDoorOpen, authCall>>
        /\ UNCHANGED <<mode, showWelcomeText, showForm, isAuthenticated, cameraVars,
                       effectPending, frameVars, lightVars, curveVars, registerName,
                       avatarInitials>>

\* Variant of handleLoginSettled in which a rejected login brings the welcome
\* text back.
handleLoginSettled_BackToWelcome ==
    \E resolved \in BOOLEAN :
        /\ authCall = "login"
        /\ authCall' = "none"
        /\ isDoorOpen' = IF resolved THEN isDoorOpen ELSE FALSE
        /\ showWelcomeText' = IF resolved THEN showWelcomeText ELSE TRUE
        /\ isLoading' = FALSE
        /\ UNCHANGED <<mode, showForm, isAuthenticated, cameraVars, effectPending,
                       frameVars, events, lightVars, curveVars, registerName,
                       avatarInitials>>

\* Variant of handleLoginSettled that releases isLoading only when the login
\* resolved.
handleLoginSettled_ReleaseOnSuccess ==
    \E resolved \in BOOLEAN :
        /\ authCall = "login"
        /\ authCall' = "none"
        /\ isDoorOpen' = IF resolved THEN isDoorOpen ELSE FALSE
        /\ isLoading' = IF resolved THEN FALSE ELSE isLoading
        /\ UNCHANGED <<mode, showWelcomeText, showForm, isAuthenticated, cameraVars,
                       effectPending, frameVars, events, lightVars, curveVars,
                       registerName, avatarInitials>>

\* The awaited login call settles: catch when it rejected, then finally.
handleLoginSettled ==
    \E resolved \in BOOLEAN :
        /\ authCall = "login"
        /\ authCall' = "none"
        /\ isDoorOpen' = IF resolved THEN isDoorOpen ELSE FALSE
        /\ isLoading' = FALSE
        /\ UNCHANGED <<mode, showWelcomeText, showForm, isAuthenticated, cameraVars,
                       effectPending, frameVars, events, lightVars, curveVars,
                       registerName, avatarInitials>>

\* The signup form is submitted with the name given; complete says that
\* neither the email nor the password is empty.
handleRegister ==
    \E name \in Names, complete \in BOOLEAN :
        /\ showForm /\ mode = "signup" /\ ~isLoading
        /\ events < MaxEvents
        /\ events' = events + 1
        /\ IF name # <<>> /\ complete
           THEN /\ isLoading' = TRUE
                /\ registerName' = name
                /\ avatarInitials' = initials(name)
                /\ authCall' = "register"
           ELSE UNCHANGED formVars
        /\ UNCHANGED <<pageVars, cameraVars, effectPending, frameVars, lightVars, curveVars>>

\* The awaited register call settles: finally.
handleRegisterSettled ==
    /\ authCall = "register"
    /\ authCall' = "none"
    /\ isLoading' = FALSE
    /\ UNCHANGED <<pageVars, cameraVars, effectPending, frameVars, events, lightVars,
                   curveVars, registerName, avatarInitials>>

\* A frame of the page, one step of the orbit tables long.
FrameTick ==
    /\ ticks < MaxTicks
    /\ UseFrame(GridStep)

PageNext ==
    \/ RunEffect
    \/ FrameTick
    \/ handleHouseClick
    \/ EnterHomeClick
    \/ JoinHomeClick
    \/ AuthChange
    \/ handleLogin
    \/ handleLoginSettled
    \/ handleRegister
    \/ handleRegisterSettled

PageSpec == Init /\ [][PageNext]_vars

\* The page without its frames: clicks, submissions and settling calls.
FormNext ==
    \/ handleHouseClick
    \/ EnterHomeClick
    \/ JoinHomeClick
    \/ AuthChange
    \/ handleLogin
    \/ handleLoginSettled
    \/ handleRegister
    \/ handleRegisterSettled

FormSpec == Init /\ [][FormNext]_vars

\* The auth context settles every call that it is given.
FormLiveSpec ==
    FormSpec /\ WF_vars(handleLoginSettled) /\ WF_vars(handleRegisterSettled)

---------------------------------------------------------------------------
\* Helpers of the properties.
Shots == {"Welcome", "LoginFocus", "SignupFocus", "Authenticated"}

\* The target of a state as the state machine defines it.
StatePosition(s, t) ==
    CASE s = "Welcome" -> WelcomePosition
      [] s = "LoginFocus" -> LoginPosition(t)
      [] s = "SignupFocus" -> SignupPosition(t)
      [] OTHER -> InteriorPosition

StateLookAt(s) ==
    CASE s = "Welcome" -> WelcomeLookAt
      [] s = "LoginFocus" -> LoginLookAt
      [] s = "SignupFocus" -> SignupLookAt
      [] OTHER -> InteriorLookAt

\* x lies between a and b, ends included.
Between(a, x, b) == (a <= x /\ x <= b) \/ (b <= x /\ x <= a)

Mirror(v) == <<-v[1], v[2], v[3]>>

\* This step is a frame.
IsFrame == ticks' # ticks

---------------------------------------------------------------------------
\* C1: while isAuthenticated is true, every frame takes the Authenticated
\* branch whatever mode and showWelcomeText are, and no step (a frame, a change
\* of mode or of showWelcomeText, the effect) writes anything but the interior
\* shot into the target.
C1_AuthenticatedPriority ==
    [][(isAuthenticated /\ isAuthenticated') =>
          /\ IsFrame => shot' = "Authenticated"
          /\ targetPosition' \in {targetPosition, InteriorPosition}
          /\ targetLookAt' \in {targetLookAt, InteriorLookAt}]_vars

\* The example of the specification: authenticated, signup, welcome shown.
C1_Witness ==
    /\ isAuthenticated
    /\ mode = "signup"
    /\ showWelcomeText
    /\ shot = "Authenticated"
    /\ ticks >= 1

\* C2: in every frame that moves the camera, the target interpolated toward is
\* the target of the state that isAuthenticated, showWelcomeText and mode
\* select at that frame.
C2_TargetOfSelectedState ==
    [][(IsFrame /\ (currentPosition' # currentPosition \/ currentLookAt' # currentLookAt)) =>
          /\ targetPosition' =
                StatePosition(CameraShot(isAuthenticated, showWelcomeText, mode), timeRef')
          /\ targetLookAt' =
                StateLookAt(CameraShot(isAuthenticated, showWelcomeText, mode))]_vars

C4_UnauthenticatedPriority ==
    [][(IsFrame /\ ~isAuthenticated) =>
          /\ shot' \in Shots
          /\ IF showWelcomeText
             THEN /\ shot' = "Welcome"
                  /\ targetPosition' = WelcomePosition
                  /\ targetLookAt' = WelcomeLookAt
             ELSE IF mode = "login"
                  THEN /\ shot' = "LoginFocus"
                       /\ targetPosition' = LoginPosition(timeRef')
                       /\ targetLookAt' = LoginLookAt
                  ELSE /\ shot' = "SignupFocus"
                       /\ targetPosition' = SignupPosition(timeRef')
                       /\ targetLookAt' = SignupLookAt]_vars

\* Welcome wins over mode signup.
C4_Witness ==
    /\ ~isAuthenticated
    /\ showWelcomeText
    /\ mode = "signup"
    /\ shot = "Welcome"
    /\ targetPosition = WelcomePosition
    /\ ticks >= 1
    /\ ~effectPending

\* C5: in every frame each coordinate of the camera ends between where it was
\* and the frame's target: the factor used is within [0,1], no overshoot and no
\* move away from the target.
C5_DeltaClamped ==
    [][IsFrame =>
          \A i \in 1..3 :
              /\ Between(currentPosition[i], currentPosition'[i], targetPosition'[i])
              /\ Between(currentLookAt[i], currentLookAt'[i], targetLookAt'[i])]_vars

\* C6: a frame with delta > 0 whose target is the one of the frame before
\* strictly decreases the distance of a camera that is not at the target.
C6_StrictlyCloser ==
    [][(IsFrame /\ lastDelta' > 0 /\ targetPosition' = targetPosition
          /\ currentPosition # targetPosition) =>
          Dist(currentPosition', targetPosition) < Dist(currentPosition, targetPosition)]_vars

\* C7, as claimed: after 50 frames of 1/60 s toward the interior target the
\* camera is within 1e-3 of it (no coordinate is further than 1e-3).
C7_Within50 ==
    ticks = 50 =>
        \A i \in 1..3 : Abs(currentPosition[i] - InteriorPosition[i]) <= Quantum

\* C7, amended: each frame of 1/60 s removes 2% of the remaining offset, so
\* after 50 frames from the mount position between 36% and 37% of the offset
\* to the interior target is left in every coordinate (0.98^50 = 0.364), for
\* the position and for the look-at point.
C7_Remaining50 ==
    ticks = 50 =>
        \A i \in 1..3 :
            /\ 100 * Abs(currentPosition[i] - InteriorPosition[i])
                  >= 36 * Abs(WelcomePosition[i] - InteriorPosition[i])
            /\ 100 * Abs(currentPosition[i] - InteriorPosition[i])
                  <= 37 * Abs(WelcomePosition[i] - InteriorPosition[i])
            /\ 100 * Abs(currentLookAt[i] - InteriorLookAt[i])
                  >= 36 * Abs(WelcomeLookAt[i] - InteriorLookAt[i])
            /\ 100 * Abs(currentLookAt[i] - InteriorLookAt[i])
                  <= 37 * Abs(WelcomeLookAt[i] - InteriorLookAt[i])

C7_Witness ==
    /\ ticks = 50
    /\ targetPosition = InteriorPosition
    /\ currentPosition # InteriorPosition
    /\ currentPosition # WelcomePosition

\* C8: one frame of 5/6 s leaves the camera where two frames of 5/12 s toward
\* the same target leave it.
C8_FrameRateIndependent ==
    (ticks + 2 <= MaxTicks) =>
        Lerp(Lerp(currentPosition, targetPosition, GridStep), targetPosition, GridStep)
            = Lerp(currentPosition, targetPosition, 2 * GridStep)

\* C9: only a frame assigns currentPosition and currentLookAt, and a frame
\* whose factor num/den = delta * 1.2 is strictly between 0 and 1 moves them by
\* exactly that fraction of their offset to the frame's target, so a camera
\* that is not at the target does not reach it in that frame.
C9_SmoothRetarget ==
    [][/\ ~IsFrame =>
             (currentPosition' = currentPosition /\ currentLookAt' = currentLookAt)
       /\ (IsFrame /\ 0 < DampingNum(lastDelta')
             /\ DampingNum(lastDelta') < DampingDen(lastDelta')) =>
             /\ \A i \in 1..3 :
                   /\ DampingDen(lastDelta') * (currentPosition'[i] - currentPosition[i])
                         = DampingNum(lastDelta') * (targetPosition'[i] - currentPosition[i])
                   /\ DampingDen(lastDelta') * (currentLookAt'[i] - currentLookAt[i])
                         = DampingNum(lastDelta') * (targetLookAt'[i] - currentLookAt[i])
             /\ currentPosition # targetPosition' => currentPosition' # targetPosition'
             /\ currentLookAt # targetLookAt' => currentLookAt' # targetLookAt']_vars

\* Retargeted in flight: a second shot is approached from a position that is
\* neither the mount position nor a target.
C9_Witness ==
    /\ shot = "SignupFocus"
    /\ lastDelta = GridStep
    /\ ticks >= 2
    /\ targetPosition = SignupPosition(timeRef)
    /\ currentPosition # targetPosition
    /\ currentPosition[1] > 0

\* C10: the target a LoginFocus frame installs is the mirror image in x of the
\* SignupFocus target for the same timeRef and lies at x > 0; the target a
\* SignupFocus frame installs is the mirror image of the LoginFocus target and
\* lies at x < 0; the look-at points are mirror images (-0.5 and 0.5).
C10_MirrorSymmetry ==
    /\ (shot = "LoginFocus" /\ targetLookAt = LoginLookAt) =>
          /\ Mirror(targetPosition) = SignupPosition(timeRef)
          /\ Mirror(targetLookAt) = SignupLookAt
          /\ targetPosition[1] > 0
    /\ (shot = "SignupFocus" /\ targetLookAt = SignupLookAt) =>
          /\ Mirror(targetPosition) = LoginPosition(timeRef)
          /\ Mirror(targetLookAt) = LoginLookAt
          /\ targetPosition[1] < 0
    /\ LoginLookAt[1] = -500 * Quantum
    /\ SignupLookAt[1] = 500 * Quantum

C10_Witness ==
    /\ shot = "SignupFocus"
    /\ targetLookAt = SignupLookAt
    /\ timeRef >= 800
    /\ SinAngle(timeRef) > 0
    /\ targetPosition = SignupPosition(timeRef)

---------------------------------------------------------------------------
\* Curve properties (interpolate).
\* What rounding may add to or take from a brightness: 2^-50, four units in
\* the last place of 1.
Rounding == [DblOne EXCEPT !.exp = @ - 50]
dblNear(a, b) == dblLe(dblAbs(dblSub(a, b)), Rounding)
InRange(v) == v >= 0 /\ v <= TimeDen

\* The indices the specification gives a value: floor and ceiling of
\* count * value, both limited to [0, count].
SegmentLow(c, v) == Min(Max(Floor((Len(c) - 1) * v, TimeDen), 0), Len(c) - 1)
SegmentHigh(c, v) == Min(Max(Ceil((Len(c) - 1) * v, TimeDen), 0), Len(c) - 1)

\* C11: on a curve of two or more keyframes (one keyframe is the matter of
\* C12), a value below 0 evaluates to what 0 evaluates to and a value above
\* 1 to what 1 evaluates to.
C11_ClampProperty ==
    Len(curve) >= 2 =>
        /\ value < 0 => dblStrictEq(result, interpolateAt[curve, 0])
        /\ value > TimeDen => dblStrictEq(result, interpolateAt[curve, TimeDen])

\* C12: for a value in [0, 1] whose two indices coincide, the curve of one
\* keyframe included, the result is the keyframe at that index.
C12_ZeroWidthGuard ==
    (InRange(value) /\ SegmentLow(curve, value) = SegmentHigh(curve, value)) =>
        dblStrictEq(result, scaleAt(curve, SegmentLow(curve, value)))

\* C13: an authored curve evaluates to its first keyframe at 0 and to its
\* last keyframe at 1.
C13_CurveBoundary ==
    curve \in AuthoredCurves =>
        /\ value = 0 => dblStrictEq(result, scaleAt(curve, 0))
        /\ value = TimeDen => dblStrictEq(result, scaleAt(curve, Len(curve) - 1))

C13_Witness ==
    /\ curve = moonCurve
    /\ value = TimeDen
    /\ result = Hundredths(40)

\* C14: on a curve of N >= 2 keyframes, the value i/(N-1) evaluates to
\* keyframe i, and the curve is continuous across each breakpoint: within a
\* segment the result is no further from the keyframe at either end than the
\* share of the segment that separates the value from that end, times the
\* step between the two keyframes, but for the rounding of the result.
C14_KeyframeReproduction ==
    (Len(curve) >= 2 /\ InRange(value)) =>
        LET count == Len(curve) - 1
            low == SegmentLow(curve, value)
            high == SegmentHigh(curve, value)
            step == dblAbs(dblSub(scaleAt(curve, high), scaleAt(curve, low)))
        IN  /\ \A i \in 0..count :
                   count * value = i * TimeDen => dblStrictEq(result, scaleAt(curve, i))
            /\ \A b \in {low, high} :
                   dblLe(dblAbs(dblSub(result, scaleAt(curve, b))),
                         dblAdd(dblMul(Dbl(Abs(count * value - b * TimeDen), TimeDen), step),
                                Rounding))

C14_Witness ==
    /\ curve = sunCurve
    /\ 22 * value = 15 * TimeDen
    /\ result = Hundredths(30)

\* C15: for a value strictly between two adjacent keyframes, the result lies
\* between the two keyframes, ends included, and a later value of the same
\* segment gives a result no nearer the lower keyframe's side: the curve is
\* monotonic along the segment, in the direction of the step.
C15_MonotonicSegment ==
    [][ (/\ Len(curve') >= 2
         /\ InRange(value')
         /\ SegmentLow(curve', value') < SegmentHigh(curve', value')) =>
            LET a == scaleAt(curve', SegmentLow(curve', value'))
                b == scaleAt(curve', SegmentHigh(curve', value'))
            IN  /\ \/ dblLe(a, result') /\ dblLe(result', b)
                   \/ dblLe(b, result') /\ dblLe(result', a)
                /\ (/\ curve = curve'
                    /\ InRange(value)
                    /\ value < value'
                    /\ SegmentLow(curve, value) = SegmentLow(curve', value')
                    /\ SegmentHigh(curve, value) = SegmentHigh(curve', value')) =>
                       IF dblLe(a, b) THEN dblLe(result, result') ELSE dblLe(result', result)
      ]_vars

---------------------------------------------------------------------------
\* Lighting properties (DynamicLighting).
SunMax == Hundredths(50)
MoonMax == Hundredths(40)

\* C17: the sun (peak 0.5) and the moon (peak 0.4) are never both at their
\* peak, or above it.
C17_NeverBothAtPeak == ~(dblLe(SunMax, light.sun) /\ dblLe(MoonMax, light.moon))

C17_Witness ==
    /\ renders > 1
    /\ 2 * timeOfDay = TimeDen
    /\ light.sun = SunMax
    /\ light.moon = DblZero

\* C18, as stated: there is a timeOfDay at which the sun and the moon are both
\* near zero (at most 0.1): the next render can be given one.  Any time of
\* day counts here, not only the transitions of dawn and dusk.
C18_DimCrossover ==
    renders < MaxRenders =>
        \E t \in DayInputs :
            /\ dblLe(DynamicLighting(t).sun, Hundredths(10))
            /\ dblLe(DynamicLighting(t).moon, Hundredths(10))

\* C18, amended: the sun and the moon are never both below 0.15, and at
\* timeOfDay 39/44 (dusk) the sun is 0.15 and the moon is 0.15 but for its
\* rounding.
C18_DimCrossoverAt15 ==
    /\ ~(dblLt(light.sun, Hundredths(15)) /\ dblLt(light.moon, Hundredths(15)))
    /\ 44 * timeOfDay = 39 * TimeDen =>
           /\ light.sun = Hundredths(15)
           /\ dblNear(light.moon, Hundredths(15))

\* At dusk the moon is one rounding step above the sun.
C18_Witness ==
    /\ renders > 1
    /\ 44 * timeOfDay = 39 * TimeDen
    /\ light.sun = Hundredths(15)
    /\ dblLt(Hundredths(15), light.moon)
    /\ dblNear(light.moon, Hundredths(15))

\* C19: each gradient has as many breakpoints as colours, the breakpoints
\* are non-decreasing, and at a breakpoint the gradient is exactly the
\* colour authored for it.
C19_BreakpointExactness ==
    /\ Len(sunDomain) = Len(sunStops)
    /\ Len(moonDomain) = Len(moonStops)
    /\ \A i \in 1..(Len(sunDomain) - 1) : sunDomain[i] <= sunDomain[i + 1]
    /\ \A i \in 1..(Len(moonDomain) - 1) : moonDomain[i] <= moonDomain[i + 1]
    /\ \A i \in 1..Len(sunDomain) :
           timeOfDay = StopAt(sunDomain, i) => light.sunColor = sunStops[i]
    /\ \A i \in 1..Len(moonDomain) :
           timeOfDay = StopAt(moonDomain, i) => light.moonColor = moonStops[i]

C19_Witness ==
    /\ renders > 1
    /\ timeOfDay = StopAt(sunDomain, 2)
    /\ light.sunColor = Pink
    /\ light.moonColor = MoonBlue

\* The sun gradient blended component-wise in CIE Lab (D65) between its
\* stops, at timeOfDay 0.05, 0.10 and 0.90.
SunLabSamples ==
    {<<5, <<146, 138, 238>>>>, <<10, <<206, 133, 221>>>>, <<90, <<183, 135, 228>>>>}

\* C20, as stated: between two breakpoints the gradient is the blend of the
\* two colours in a perceptually uniform colour space.
C20_PerceptualSpace ==
    \A s \in SunLabSamples : timeOfDay = s[1] * PerCent => light.sunColor = s[2]

\* Channel c of a colour is, to the nearest integer, the blend of channel c
\* of stops i and i + 1 at t = (v - d_i) / (d_(i+1) - d_i).
RgbBlendOf(colour, stops, domain, v, i) ==
    LET tn == v - StopAt(domain, i)
        td == StopAt(domain, i + 1) - StopAt(domain, i)
    IN  \A c \in 1..3 :
            2 * Abs(colour[c] * td - (stops[i][c] * td + tn * (stops[i + 1][c] - stops[i][c])))
                <= td

\* C20, amended: between two breakpoints the gradient is the component-wise
\* blend of the two colours in raw RGB, each channel rounded to an integer,
\* with t = (value - d_low) / (d_high - d_low).
C20_RgbInterpolation ==
    /\ \A i \in 1..(Len(sunStops) - 1) :
           (StopAt(sunDomain, i) <= timeOfDay /\ timeOfDay <= StopAt(sunDomain, i + 1)) =>
               RgbBlendOf(light.sunColor, sunStops, sunDomain, timeOfDay, i)
    /\ \A i \in 1..(Len(moonStops) - 1) :
           (StopAt(moonDomain, i) <= timeOfDay /\ timeOfDay <= StopAt(moonDomain, i + 1)) =>
               RgbBlendOf(light.moonColor, moonStops, moonDomain, timeOfDay, i)

C20_Witness ==
    /\ renders > 1
    /\ timeOfDay = 10 * PerCent
    /\ light.sunColor = <<170, 131, 221>>

---------------------------------------------------------------------------
\* The angle of a rotation, in degrees, from its radians in units of pi.
Degrees(r) == jsMul(r, Num(180, 1))
orientationAngle(t) == Num(360 * t - 180 * TimeDen, TimeDen)

\* C21, as stated: the angle timeOfDay * 360 - 180 degrees is applied to the
\* sun group and to the moon group as a rotation about the vertical (y)
\* axis.
C21_AboutVerticalAxis ==
    /\ light.sunRotation = <<Zero, degToRad(orientationAngle(timeOfDay)), Zero>>
    /\ light.moonRotation = light.sunRotation

\* C21, amended: the angle is timeOfDay * 360 - 180 degrees (-180 at 0, 0 at
\* 0.5, 180 at 1), and the sun group and the moon group are both rotated by
\* it about the z axis, with no rotation about x and y.
C21_OrientationAngle ==
    /\ Degrees(light.rotation) = orientationAngle(timeOfDay)
    /\ timeOfDay = 0 => Degrees(light.rotation) = Num(-180, 1)
    /\ 2 * timeOfDay = TimeDen => Degrees(light.rotation) = Zero
    /\ timeOfDay = TimeDen => Degrees(light.rotation) = Num(180, 1)
    /\ light.sunRotation = <<Zero, Zero, light.rotation>>
    /\ light.moonRotation = light.sunRotation

C21_Witness ==
    /\ renders > 1
    /\ timeOfDay = TimeDen
    /\ Degrees(light.sunRotation[3]) = Num(180, 1)
    /\ light.moonRotation[3] = Num(1, 1)

---------------------------------------------------------------------------
AtWelcome == currentPosition = WelcomePosition /\ currentLookAt = WelcomeLookAt

\* C22: the camera is created at the welcome shot; a frame with
\* isAuthenticated false and showWelcomeText true leaves exactly the welcome
\* position and look-at in the target, whatever mode and the time are; and a
\* camera at the welcome shot stays there through every step that is not a
\* frame of another state, so it has not moved as long as every frame so far
\* was a Welcome frame.
C22_WelcomeFixed ==
    /\ AtWelcome
    /\ [][ /\ (IsFrame /\ ~isAuthenticated /\ showWelcomeText) =>
                 /\ targetPosition' = WelcomePosition
                 /\ targetLookAt' = WelcomeLookAt
           /\ (AtWelcome /\ (IsFrame => ~isAuthenticated /\ showWelcomeText)) => AtWelcome'
         ]_vars

C22_Witness ==
    /\ shot = "Welcome"
    /\ ticks >= 2
    /\ mode = "signup"
    /\ ~effectPending
    /\ targetPosition = WelcomePosition
    /\ AtWelcome

\* C23: a frame that finds the interior position and look-at in the target
\* while isAuthenticated is true leaves the target as it is, whatever the
\* time, mode and showWelcomeText are; of the four vectors of the controller
\* only currentPosition and currentLookAt change.
C23_AuthenticatedFixed ==
    [][ (/\ IsFrame
         /\ isAuthenticated
         /\ targetPosition = InteriorPosition
         /\ targetLookAt = InteriorLookAt) =>
            /\ targetPosition' = InteriorPosition
            /\ targetLookAt' = InteriorLookAt
      ]_vars

C23_Witness ==
    /\ shot = "Authenticated"
    /\ isAuthenticated
    /\ showWelcomeText
    /\ mode = "signup"
    /\ targetPosition = InteriorPosition
    /\ targetLookAt = InteriorLookAt
    /\ currentPosition # WelcomePosition
    /\ currentLookAt # WelcomeLookAt

\* C24: the time is 0 at mount, every frame adds its delta to it in every
\* state, and no other step changes it; the login and the signup shot take
\* their orbit phase from this total.
C24_AccumulatedTime ==
    /\ timeRef = 0
    /\ [][ /\ IF IsFrame THEN timeRef' = timeRef + lastDelta' ELSE timeRef' = timeRef
           /\ (IsFrame /\ shot' = "LoginFocus") => targetPosition' = LoginPosition(timeRef')
           /\ (IsFrame /\ shot' = "SignupFocus") => targetPosition' = SignupPosition(timeRef')
         ]_vars

C24_Witness ==
    /\ shot = "LoginFocus"
    /\ timeRef > lastDelta
    /\ targetPosition = LoginPosition(timeRef)
    /\ LoginPosition(timeRef) # LoginPosition(lastDelta)

---------------------------------------------------------------------------
SkyMin == Hundredths(5)
SkyMax == Hundredths(20)

\* C25: for every timeOfDay in [0, 1] the sun intensity is within [0, 0.5],
\* the moon intensity within [0, 0.4] and the sky intensity within
\* [0.05, 0.2]; none is NaN.
C25_IntensityBounds ==
    InRange(timeOfDay) =>
        /\ dblLe(DblZero, light.sun) /\ dblLe(light.sun, SunMax)
        /\ dblLe(DblZero, light.moon) /\ dblLe(light.moon, MoonMax)
        /\ dblLe(SkyMin, light.sky) /\ dblLe(light.sky, SkyMax)

\* C26: the lighting at timeOfDay 1 is the lighting at timeOfDay 0: each of
\* the three curves evaluates to the same intensity at 0 and at 1, and each
\* of the two gradients gives the same colour at 0 and at 1.
C26_WrapAround ==
    /\ \A c \in AuthoredCurves : dblStrictEq(brightnessAt[c, 0], brightnessAt[c, TimeDen])
    /\ (timeOfDay = 0 \/ timeOfDay = TimeDen) =>
           /\ light.sun = DblZero
           /\ light.moon = MoonMax
           /\ light.sky = SkyMin
           /\ light.sunColor = Blue
           /\ light.moonColor = MoonBlue

C26_Witness ==
    /\ renders > 1
    /\ timeOfDay = TimeDen
    /\ light.sky = SkyMin
    /\ light.sunColor = Blue
    /\ light.moonColor = MoonBlue

---------------------------------------------------------------------------
\* Page properties.
\* C27: showWelcomeText starts true, a click on the house leaves it false,
\* and no step sets it back to true; a frame that follows a frame of another
\* state than Welcome does not target the welcome shot.
C27_WelcomeNeverReentered ==
    /\ showWelcomeText = TRUE
    /\ [][ /\ ~showWelcomeText => ~showWelcomeText'
           /\ handleHouseClick => ~showWelcomeText'
           /\ (IsFrame /\ shot \in Shots \ {"Welcome"}) => shot' # "Welcome"
         ]_vars

C27_Witness ==
    /\ shot = "LoginFocus"
    /\ mode = "login"
    /\ ~showWelcomeText
    /\ ~isDoorOpen
    /\ ~isLoading
    /\ authCall = "none"
    /\ ticks >= 2

\* C28: whenever the form is shown and the user is not authenticated,
\* showWelcomeText is false.
C28_FormAndCameraAgree == (showForm /\ ~isAuthenticated) => ~showWelcomeText

\* C29: isLoading is true exactly while a call is awaited: a submission that
\* makes a call sets it, the settling of the call, resolved or rejected,
\* clears it, and a submission that makes no call changes no state of the
\* page; and once set it is eventually cleared.
C29_LoadingReleased ==
    /\ [][ /\ (authCall = "none" /\ authCall' # "none") => isLoading'
           /\ (authCall # "none" /\ authCall' = "none") => ~isLoading'
           /\ isLoading' = (authCall' # "none")
           /\ ((handleLogin \/ handleRegister) /\ authCall' = authCall) =>
                  UNCHANGED <<pageVars, formVars>>
         ]_vars
    /\ isLoading ~> ~isLoading

C29_Witness ==
    /\ registerName # <<>>
    /\ authCall = "none"
    /\ ~isLoading
    /\ mode = "login"
    /\ ~isDoorOpen
    /\ ~showWelcomeText

\* The words of a name: the maximal runs of characters other than the space.
RECURSIVE WordsOf(_)
WordsOf(str) ==
    IF \A i \in 1..Len(str) : str[i] # " "
    THEN IF str = <<>> THEN <<>> ELSE <<str>>
    ELSE LET i == CHOOSE k \in 1..Len(str) :
                      str[k] = " " /\ \A j \in 1..(k - 1) : str[j] # " "
             rest == WordsOf(SubSeq(str, i + 1, Len(str)))
         IN  IF i = 1 THEN rest ELSE <<SubSeq(str, 1, i - 1)>> \o rest

\* The first letters of the first two words, or the first two characters of
\* the only word, in upper case.
InitialsOfWords(name) ==
    LET words == WordsOf(name)
    IN  IF Len(words) >= 2
        THEN toUpperCase(<<words[1][1], words[2][1]>>)
        ELSE toUpperCase(substring2(words[1]))

\* C30: the avatar_initials of a register call are one or two characters,
\* and for a name that has a word they are the first letters of its first
\* two words, or the first two characters of its only word, in upper case.
C30_AvatarInitials ==
    authCall = "register" =>
        /\ Len(avatarInitials) \in {1, 2}
        /\ WordsOf(registerName) # <<>> =>
               avatarInitials = InitialsOfWords(registerName)

====
